---------------------------- MODULE Spec2Model ----------------------------
(***************************************************************************)
(* Model of ctutlz/tls/handshake.py: the TLS context builder with its two  *)
(* capture hooks, the handshake orchestrator do_handshake, the artifact    *)
(* extractor cert_of_domain and the embedded SCT decoder scts_from_cert.   *)
(*                                                                         *)
(* Python values are modelled as follows: an optional value is a sequence  *)
(* of length 0 (None) or 1 (Some(x)); a bytes object is a sequence of      *)
(* integers 0..255; an exception is the string naming it ("" = none in     *)
(* flight); an X509 object is a small integer identifying it.              *)
(***************************************************************************)
EXTENDS Integers, Sequences, FiniteSets, TLC

\* ------------------------------------------------------------------ bounds
MaxChain == 2       \* longest peer chain the server presents
NumCerts == 2       \* distinct X509 objects
MaxCalls == 2       \* hook invocations the library makes during one handshake
MaxLen   == 2       \* longest extension payload enumerated byte by byte
MaxExts  == 2       \* longest extension list of a certificate
MaxScts  == 2       \* longest SCT list a CT extension wraps

\* --------------------------------------------------------------- constants
SCT_EXT_TYPE == 18  \* TLS extension number of signed_certificate_timestamp

\* ------------------------------------------------------------ basic values
None == <<>>
Some(x) == <<x>>

\* Sequences over S of length 0..n
SeqUpTo(S, n) == UNION {[1..k -> S] : k \in 0..n}

\* ------------------------------------------------------------------- state
VARIABLES
    pc,                     \* position in cert_of_domain / do_handshake
    scts_tls, scts_ocsp,    \* the two capture flags (arguments)
    ctx,                    \* the OpenSSL.SSL.Context with its python attributes
    sock,                   \* the OpenSSL.SSL.Connection and its raw socket
    peer_chain,             \* what the server's Certificate message holds
    chain, certificate,     \* locals of do_handshake (lines 118-119)
    ocsp_response,          \* local of do_handshake (line 112)
    tls_extension_18_tdf,   \* local of do_handshake (line 113)
    exc,                    \* exception in flight inside do_handshake
    fault,                  \* the exception a library call raised (history)
    hs,                     \* how do_handshake ended: outcome, exc, result
    cod,                    \* how cert_of_domain ended: outcome, exc, result
    hshake,                 \* the running TLS handshake: hook calls, abort flag
    cb,                     \* last call across the library boundary: a hook
                            \* invocation or the hook registration, with result
    cert_der,               \* argument of scts_from_cert
    scts,                   \* how scts_from_cert ended: outcome, exc, result
    codec_in,               \* the bytes scts_from_cert gave to the list codec
    lib_cb,                 \* the invocation whose ctx the python function
                            \* attached to lib.serverinfo_cli_parse_cb closes over
    inv,                    \* two invocations of do_handshake in one process
    overlapped              \* whether the two invocations ran at the same time

vars == <<pc, scts_tls, scts_ocsp, ctx, sock, peer_chain, chain, certificate,
          ocsp_response, tls_extension_18_tdf, exc, fault, hs, cod, hshake, cb,
          cert_der, scts, codec_in, lib_cb, inv, overlapped>>

\* the variables of the certificate decoder
decvars == <<cert_der, scts, codec_in>>

\* the variables of the two invocations in one process
twovars == <<lib_cb, inv, overlapped>>

\* ------------------------------------------------------- environment values
Certs == 1..NumCerts

\* The Certificate message of the server as the library hands it out: no
\* stack at all (None) or a stack of 0..MaxChain certificates, leaf first.
PeerChains == {None} \cup {Some(s) : s \in SeqUpTo(Certs, MaxChain)}

\* Exceptions the library calls of do_handshake can raise.
RequestOcspFaults == {"OpenSSL.SSL.Error:request_ocsp"}
ConnectFaults     == {"ConnectionRefusedError", "socket.gaierror"}
HandshakeFaults   == {"OpenSSL.SSL.Error:handshake", "OpenSSL.SSL.SysCallError"}
PeerCertFaults    == {"OpenSSL.SSL.Error:peer_cert"}

\* Bytes of the payloads and OCSP responses the server sends in a handshake.
HsBytes     == {0, 18}
HsPayloads  == SeqUpTo(HsBytes, 1)
OcspDatas   == {<<>>, <<48>>, <<49>>}
VerifyErrs  == {0, 10, 20}      \* X509_V_OK, CERT_HAS_EXPIRED, UNABLE_TO_GET_ISSUER_CERT_LOCALLY
VerifyDepth == 0..1

\* ------------------------------------------------------------ pure helpers
\* a pack in the byte order of the host ('<H'): least significant first
PackH_little(v) == <<v % 256, (v \div 256) % 256>>

\* struct.pack('!H', v): two bytes, most significant first (line 56-57, 60)
PackH(v) == <<(v \div 256) % 256, v % 256>>

\* struct.pack('<n>s', b): b cut or zero-padded to n bytes (line 58, 60)
PackS(n, b) == [i \in 1..n |-> IF i <= Len(b) THEN b[i] ELSE 0]

\* struct.unpack('!HH<L>s', record), the inverse used to read a record back
UnpackH(b, at) == b[at] * 256 + b[at + 1]
DecodeTdf(rec) ==
    [ext_type |-> UnpackH(rec, 1),
     length   |-> UnpackH(rec, 3),
     payload  |-> SubSeq(rec, 5, Len(rec))]

\* ------------------------------------------------------------------- hooks
\* a verification callback that passes the verdict of the library on
verify_callback_strict(cert, errnum, depth, ok) == ok

\* verify_callback(conn, cert, errnum, depth, ok), lines 26-28
verify_callback(cert, errnum, depth, ok) == 1

\* a hook that accepts only the extension it captures
serverinfo_cli_parse_cb_picky(slot, ext_type, data, inlen) ==
    IF ext_type = SCT_EXT_TYPE
    THEN [slot |-> Some(PackH(ext_type) \o PackH(inlen) \o PackS(inlen, data)),
          ret  |-> 1]
    ELSE [slot |-> slot, ret |-> 0]

\* a hook that fills the slot once and leaves a filled slot alone
serverinfo_cli_parse_cb_once(slot, ext_type, data, inlen) ==
    IF ext_type = SCT_EXT_TYPE /\ slot = None
    THEN [slot |-> Some(PackH(ext_type) \o PackH(inlen) \o PackS(inlen, data)),
          ret  |-> 1]
    ELSE [slot |-> slot, ret |-> 1]

\* serverinfo_cli_parse_cb(ssl, ext_type, _in, inlen, al, arg), lines 45-61.
\* slot is ctx.tls_extension_18_tdf, data is bytes(ffi.buffer(_in, inlen)).
\* struct.pack raises struct.error for a value 'H' cannot hold; an exception
\* leaving a def_extern callback makes it return 0 with the slot untouched.
serverinfo_cli_parse_cb(slot, ext_type, data, inlen) ==
    IF ext_type = SCT_EXT_TYPE
    THEN IF inlen > 65535
         THEN [slot |-> slot, ret |-> 0]
         ELSE [slot |-> Some(PackH(ext_type) \o PackH(inlen) \o PackS(inlen, data)),
               ret  |-> 1]
    ELSE [slot |-> slot, ret |-> 1]

\* a collector that puts each new response in front of the earlier ones
ocsp_client_callback_prepend(resps, ocsp_data) ==
    [resps |-> <<ocsp_data>> \o resps, ret |-> 1]

\* ocsp_client_callback(connection, ocsp_data, data), lines 79-81
ocsp_client_callback(resps, ocsp_data) ==
    [resps |-> Append(resps, ocsp_data), ret |-> 1]

\* --------------------------------------------------------------- the start
NoCtx  == [built |-> FALSE, tls_extension_18_tdf |-> None, ocsp_resps |-> <<>>,
           verify_cb |-> FALSE, ext_cb |-> FALSE, ocsp_cb |-> FALSE]
NoSock == [created |-> FALSE, status_requests |-> 0, connects |-> 0,
           handshakes |-> 0, closes |-> 0]
NoEnd  == [outcome |-> "none", exc |-> "", result |-> None]
NoHshake == [calls |-> 0, abort |-> FALSE, bad_verdict |-> FALSE,
             delivered |-> <<>>, n18 |-> 0, last18 |-> None]
NoCb   == [hook |-> "none", args |-> <<>>, ret |-> 1]

InitLocals ==
    /\ ctx = NoCtx
    /\ sock = NoSock
    /\ peer_chain = None
    /\ chain = None
    /\ certificate = None
    /\ ocsp_response = None
    /\ tls_extension_18_tdf = None
    /\ exc = ""
    /\ fault = ""
    /\ hs = NoEnd
    /\ cod = NoEnd
    /\ hshake = NoHshake
    /\ cb = NoCb

\* no certificate is being decoded
InitNoDecode ==
    /\ cert_der = None
    /\ scts = NoEnd
    /\ codec_in = None

\* an invocation of do_handshake that has not begun
Invocations == {1, 2}
NoInv == [pc |-> "start", scts_tls |-> FALSE, scts_ocsp |-> FALSE,
          ctx |-> NoCtx, calls |-> 0, last18 |-> None, delivered |-> <<>>,
          outcome |-> "none", exc |-> "",
          ocsp_response |-> None, tls_extension_18_tdf |-> None]

\* no second invocation runs beside the one modelled step by step
InitNoTwo ==
    /\ lib_cb = 0
    /\ inv = [i \in Invocations |-> NoInv]
    /\ overlapped = FALSE

Init ==
    /\ pc = "create_context"
    /\ scts_tls \in BOOLEAN
    /\ scts_ocsp \in BOOLEAN
    /\ InitLocals
    /\ InitNoDecode
    /\ InitNoTwo

\* ---------------------------------------------------------- create_context
\* a context builder that goes on without the hook when registration fails
create_context_unchecked(status) ==
    /\ pc = "create_context"
    /\ ctx' = [built |-> TRUE, tls_extension_18_tdf |-> None,
               ocsp_resps |-> <<>>, verify_cb |-> TRUE,
               ext_cb |-> scts_tls /\ status = 1, ocsp_cb |-> scts_ocsp]
    /\ pc' = "create_socket"
    /\ cb' = IF scts_tls
             THEN [hook |-> "register", args |-> <<SCT_EXT_TYPE>>, ret |-> status]
             ELSE cb
    /\ UNCHANGED <<twovars, decvars, scts_tls, scts_ocsp, sock, peer_chain, chain,
                   certificate, ocsp_response, tls_extension_18_tdf, exc, fault,
                   hs, cod, hshake>>

\* a context builder that installs both hooks as soon as one flag is set
create_context_both_hooks(status) ==
    /\ pc = "create_context"
    /\ IF scts_tls /\ status = 0
       THEN /\ pc' = "done"
            /\ hs' = [outcome |-> "raise", exc |-> "SystemExit", result |-> None]
            /\ cod' = [outcome |-> "raise", exc |-> "SystemExit", result |-> None]
            /\ UNCHANGED ctx
       ELSE /\ ctx' = [built |-> TRUE, tls_extension_18_tdf |-> None,
                       ocsp_resps |-> <<>>, verify_cb |-> TRUE,
                       ext_cb |-> scts_tls \/ scts_ocsp,
                       ocsp_cb |-> scts_ocsp \/ scts_tls]
            /\ pc' = "create_socket"
            /\ UNCHANGED <<hs, cod>>
    /\ cb' = IF scts_tls
             THEN [hook |-> "register", args |-> <<SCT_EXT_TYPE>>, ret |-> status]
             ELSE cb
    /\ UNCHANGED <<twovars, decvars, scts_tls, scts_ocsp, sock, peer_chain,
                   chain, certificate, ocsp_response, tls_extension_18_tdf, exc,
                   fault, hshake>>

\* create_context(scts_tls, scts_ocsp), lines 19-85, as create_socket calls
\* it (line 94).  status is what SSL_CTX_add_client_custom_ext returns.
create_context(status) ==
    /\ pc = "create_context"
    /\ IF scts_tls /\ status = 0
       THEN \* lines 71-74: report and sys.exit(1); SystemExit leaves
            \* create_socket, do_handshake (line 108) and cert_of_domain
            /\ pc' = "done"
            /\ hs' = [outcome |-> "raise", exc |-> "SystemExit", result |-> None]
            /\ cod' = [outcome |-> "raise", exc |-> "SystemExit", result |-> None]
            /\ UNCHANGED ctx
       ELSE /\ ctx' = [built |-> TRUE,
                       tls_extension_18_tdf |-> None,       \* line 38
                       ocsp_resps |-> <<>>,                 \* line 76
                       verify_cb |-> TRUE,                  \* line 34
                       ext_cb |-> scts_tls,                 \* lines 39-70
                       ocsp_cb |-> scts_ocsp]               \* lines 77-83
            /\ pc' = "create_socket"
            /\ UNCHANGED <<hs, cod>>
    /\ cb' = IF scts_tls
             THEN [hook |-> "register", args |-> <<SCT_EXT_TYPE>>, ret |-> status]
             ELSE cb
    /\ UNCHANGED <<twovars, decvars, scts_tls, scts_ocsp, sock, peer_chain, chain, certificate,
                   ocsp_response, tls_extension_18_tdf, exc, fault, hshake>>

\* create_socket, lines 95-96: the raw TCP socket and the Connection on it
create_socket ==
    /\ pc = "create_socket"
    /\ sock' = [sock EXCEPT !.created = TRUE]
    /\ pc' = "request_ocsp"
    /\ UNCHANGED <<twovars, decvars, scts_tls, scts_ocsp, ctx, peer_chain, chain, certificate,
                   ocsp_response, tls_extension_18_tdf, exc, fault, hs, cod,
                   hshake, cb>>

\* ------------------------------------------------------------ do_handshake
\* How an exception raised before the try block (lines 108-110) ends the
\* call: it leaves do_handshake and cert_of_domain with no handler run.
Propagate(e) ==
    /\ pc' = "done"
    /\ hs' = [outcome |-> "raise", exc |-> e, result |-> None]
    /\ cod' = [outcome |-> "raise", exc |-> e, result |-> None]

\* How an exception raised inside the try block (lines 116-127) goes on:
\* the handler at line 129 takes it.
Raise(e) ==
    /\ exc' = e
    /\ fault' = e
    /\ pc' = "except"

\* a do_handshake that never asks for a stapled response
request_ocsp_skipped ==
    /\ pc = "request_ocsp"
    /\ ocsp_response' = None
    /\ tls_extension_18_tdf' = None
    /\ pc' = "connect"
    /\ UNCHANGED <<twovars, decvars, scts_tls, scts_ocsp, ctx, sock, peer_chain,
                   chain, certificate, exc, fault, hs, cod, hshake, cb>>

\* a do_handshake that asks for a stapled response only under scts_ocsp
request_ocsp_conditional ==
    /\ pc = "request_ocsp"
    /\ \/ /\ sock' = [sock EXCEPT !.status_requests =
                                       IF scts_ocsp THEN @ + 1 ELSE @]
          /\ ocsp_response' = None
          /\ tls_extension_18_tdf' = None
          /\ pc' = "connect"
          /\ UNCHANGED <<hs, cod, fault>>
       \/ /\ scts_ocsp
          /\ \E e \in RequestOcspFaults :
                /\ Propagate(e)
                /\ fault' = e
                /\ UNCHANGED <<sock, ocsp_response, tls_extension_18_tdf>>
    /\ UNCHANGED <<twovars, decvars, scts_tls, scts_ocsp, ctx, peer_chain,
                   chain, certificate, exc, hshake, cb>>

\* line 110 with lines 112-113: sock.request_ocsp(), outside the try block
request_ocsp ==
    /\ pc = "request_ocsp"
    /\ \/ /\ sock' = [sock EXCEPT !.status_requests = @ + 1]
          /\ ocsp_response' = None
          /\ tls_extension_18_tdf' = None
          /\ pc' = "connect"
          /\ UNCHANGED <<hs, cod, fault>>
       \/ \E e \in RequestOcspFaults :
             /\ Propagate(e)
             /\ fault' = e
             /\ UNCHANGED <<sock, ocsp_response, tls_extension_18_tdf>>
    /\ UNCHANGED <<twovars, decvars, scts_tls, scts_ocsp, ctx, peer_chain, chain, certificate,
                   exc, hshake, cb>>

\* line 116: sock.connect((domain, 443))
connect ==
    /\ pc = "connect"
    /\ sock' = [sock EXCEPT !.connects = @ + 1]
    /\ \/ /\ pc' = "do_handshake"
          /\ UNCHANGED <<exc, fault>>
       \/ \E e \in ConnectFaults : Raise(e)
    /\ UNCHANGED <<twovars, decvars, scts_tls, scts_ocsp, ctx, peer_chain, chain, certificate,
                   ocsp_response, tls_extension_18_tdf, hs, cod, hshake, cb>>

\* line 117: sock.do_handshake() is entered
handshake_begin ==
    /\ pc = "do_handshake"
    /\ sock' = [sock EXCEPT !.handshakes = @ + 1]
    /\ hshake' = NoHshake
    /\ pc' = "in_handshake"
    /\ UNCHANGED <<twovars, decvars, scts_tls, scts_ocsp, ctx, peer_chain, chain, certificate,
                   ocsp_response, tls_extension_18_tdf, exc, fault, hs, cod, cb>>

\* During line 117 the library calls the verification callback once per
\* chain certificate, with its own verdict ok (line 34 installs it).
hook_verify(cert, errnum, depth, ok) ==
    /\ pc = "in_handshake"
    /\ ctx.verify_cb
    /\ hshake.calls < MaxCalls
    /\ LET r == verify_callback(cert, errnum, depth, ok) IN
       /\ cb' = [hook |-> "verify", args |-> <<cert, errnum, depth, ok>>, ret |-> r]
       /\ hshake' = [hshake EXCEPT !.calls = @ + 1,
                                   !.abort = @ \/ (r = 0),
                                   !.bad_verdict = @ \/ (ok = 0)]
    /\ UNCHANGED <<twovars, decvars, pc, scts_tls, scts_ocsp, ctx, sock, peer_chain, chain,
                   certificate, ocsp_response, tls_extension_18_tdf, exc, fault,
                   hs, cod>>

\* During line 117 the library calls the hook registered for extension 18
\* (lines 65-70) for each such extension of the ServerHello.
hook_extension(ext_type, in) ==
    /\ pc = "in_handshake"
    /\ ctx.ext_cb
    /\ hshake.calls < MaxCalls
    /\ LET inlen == Len(in)
           r == serverinfo_cli_parse_cb(ctx.tls_extension_18_tdf, ext_type,
                                        SubSeq(in, 1, inlen), inlen) IN
       /\ ctx' = [ctx EXCEPT !.tls_extension_18_tdf = r.slot]
       /\ cb' = [hook |-> "extension", args |-> <<ext_type, in, inlen>>,
                 ret |-> r.ret]
       /\ hshake' = [hshake EXCEPT
                       !.calls = @ + 1,
                       !.abort = @ \/ (r.ret = 0),
                       !.n18 = IF ext_type = SCT_EXT_TYPE THEN @ + 1 ELSE @,
                       !.last18 = IF ext_type = SCT_EXT_TYPE THEN Some(in) ELSE @]
    /\ UNCHANGED <<twovars, decvars, pc, scts_tls, scts_ocsp, sock, peer_chain, chain,
                   certificate, ocsp_response, tls_extension_18_tdf, exc, fault,
                   hs, cod>>

\* During line 117 the library calls the OCSP callback (line 83) when the
\* status request of line 110 was made.
hook_ocsp(ocsp_data) ==
    /\ pc = "in_handshake"
    /\ ctx.ocsp_cb
    /\ sock.status_requests > 0
    /\ hshake.calls < MaxCalls
    /\ LET r == ocsp_client_callback(ctx.ocsp_resps, ocsp_data) IN
       /\ ctx' = [ctx EXCEPT !.ocsp_resps = r.resps]
       /\ cb' = [hook |-> "ocsp", args |-> <<ocsp_data>>, ret |-> r.ret]
       /\ hshake' = [hshake EXCEPT !.calls = @ + 1,
                                   !.abort = @ \/ (r.ret = 0),
                                   !.delivered = Append(@, ocsp_data)]
    /\ UNCHANGED <<twovars, decvars, pc, scts_tls, scts_ocsp, sock, peer_chain, chain,
                   certificate, ocsp_response, tls_extension_18_tdf, exc, fault,
                   hs, cod>>

\* line 117 returns, or raises: it cannot succeed once a hook refused
handshake_end ==
    /\ pc = "in_handshake"
    /\ \/ /\ ~hshake.abort
          /\ \E p \in PeerChains : peer_chain' = p
          /\ pc' = "get_peer_cert_chain"
          /\ UNCHANGED <<exc, fault>>
       \/ /\ \E e \in HandshakeFaults : Raise(e)
          /\ UNCHANGED peer_chain
    /\ UNCHANGED <<twovars, decvars, scts_tls, scts_ocsp, ctx, sock, chain, certificate,
                   ocsp_response, tls_extension_18_tdf, hs, cod, hshake, cb>>

\* line 118: chain = sock.get_peer_cert_chain()
get_peer_cert_chain ==
    /\ pc = "get_peer_cert_chain"
    /\ \/ /\ chain' = peer_chain
          /\ pc' = "get_peer_certificate"
          /\ UNCHANGED <<exc, fault>>
       \/ /\ \E e \in PeerCertFaults : Raise(e)
          /\ UNCHANGED chain
    /\ UNCHANGED <<twovars, decvars, scts_tls, scts_ocsp, ctx, sock, peer_chain, certificate,
                   ocsp_response, tls_extension_18_tdf, hs, cod, hshake, cb>>

\* line 119: certificate = sock.get_peer_certificate(): the leaf of the
\* Certificate message, None when the server sent no certificate
get_peer_certificate ==
    /\ pc = "get_peer_certificate"
    /\ \/ /\ certificate' = IF peer_chain = None \/ peer_chain[1] = <<>>
                            THEN None
                            ELSE Some(peer_chain[1][1])
          /\ pc' = "read_context"
          /\ UNCHANGED <<exc, fault>>
       \/ /\ \E e \in PeerCertFaults : Raise(e)
          /\ UNCHANGED certificate
    /\ UNCHANGED <<twovars, decvars, scts_tls, scts_ocsp, ctx, sock, peer_chain, chain,
                   ocsp_response, tls_extension_18_tdf, hs, cod, hshake, cb>>

\* lines 121-127: the two slots of the context are read, each under its flag
read_context ==
    /\ pc = "read_context"
    /\ tls_extension_18_tdf' =
          IF scts_tls /\ ctx.tls_extension_18_tdf # None
                      /\ ctx.tls_extension_18_tdf[1] # <<>>
          THEN ctx.tls_extension_18_tdf
          ELSE tls_extension_18_tdf
    /\ ocsp_response' =
          IF scts_ocsp /\ ctx.ocsp_resps # <<>>
          THEN Some(ctx.ocsp_resps[1])
          ELSE ocsp_response
    /\ pc' = "finally"
    /\ UNCHANGED <<twovars, decvars, scts_tls, scts_ocsp, ctx, sock, peer_chain, chain,
                   certificate, exc, fault, hs, cod, hshake, cb>>

\* a handler that raises a generic exception in place of the one caught
reraise_generic(e) == "Exception"

\* line 134: raise exc, the exception object the handler caught
reraise(e) == e

\* lines 129-134: the handler prints the diagnostics and raises exc again
except_handler ==
    /\ pc = "except"
    /\ exc' = reraise(exc)
    /\ pc' = "finally"
    /\ UNCHANGED <<twovars, decvars, scts_tls, scts_ocsp, ctx, sock, peer_chain, chain,
                   certificate, ocsp_response, tls_extension_18_tdf, fault, hs,
                   cod, hshake, cb>>

\* lines 135-138: sock.close(); then the exception in flight leaves
\* do_handshake and cert_of_domain, or do_handshake returns its tuple
finally_close ==
    /\ pc = "finally"
    /\ sock' = [sock EXCEPT !.closes = @ + 1]
    /\ IF exc # ""
       THEN /\ Propagate(exc)
       ELSE /\ hs' = [outcome |-> "return", exc |-> "",
                      result |-> Some(<<certificate, chain, ocsp_response,
                                        tls_extension_18_tdf>>)]
            /\ pc' = "cert_of_domain"
            /\ UNCHANGED cod
    /\ UNCHANGED <<twovars, decvars, scts_tls, scts_ocsp, ctx, peer_chain, chain, certificate,
                   ocsp_response, tls_extension_18_tdf, exc, fault, hshake, cb>>

\* ---------------------------------------------------------- cert_of_domain
\* OpenSSL.crypto.dump_certificate(FILETYPE_ASN1, x509): the DER bytes of
\* the X509 object, a SEQUENCE whose content identifies the certificate
dump_certificate(x509) == <<48, 1, x509>>

\* an extractor that reads the issuer at index 0 and yields an absent issuer
\* instead of failing
extract_artifacts_lenient(cert_x509, chain_x509s, ocsp_resp_der, tls_ext_18_tdf) ==
    [outcome |-> "return", exc |-> "",
     result |-> Some(<<IF cert_x509 = None THEN None
                       ELSE dump_certificate(cert_x509[1]),
                       IF chain_x509s = None \/ chain_x509s[1] = <<>> THEN None
                       ELSE dump_certificate(chain_x509s[1][1]),
                       ocsp_resp_der, tls_ext_18_tdf>>)]

\* lines 152-158 on the tuple do_handshake returned: what cert_of_domain
\* returns or raises
extract_artifacts(cert_x509, chain_x509s, ocsp_resp_der, tls_ext_18_tdf) ==
    IF cert_x509 = None
    THEN \* line 152-153: None has no _x509
         [outcome |-> "raise", exc |-> "AttributeError", result |-> None]
    ELSE IF chain_x509s = None
    THEN \* line 155: None is not subscriptable
         [outcome |-> "raise", exc |-> "TypeError", result |-> None]
    ELSE IF Len(chain_x509s[1]) < 2
    THEN \* line 155: list index out of range
         [outcome |-> "raise", exc |-> "IndexError", result |-> None]
    ELSE [outcome |-> "return", exc |-> "",
          result |-> Some(<<dump_certificate(cert_x509[1]),
                            dump_certificate(chain_x509s[1][2]),
                            ocsp_resp_der, tls_ext_18_tdf>>)]

\* lines 149-158 after do_handshake has returned
cert_of_domain ==
    /\ pc = "cert_of_domain"
    /\ LET r == hs.result[1] IN
          cod' = extract_artifacts(r[1], r[2], r[3], r[4])
    /\ pc' = "done"
    /\ UNCHANGED <<twovars, decvars, scts_tls, scts_ocsp, ctx, sock, peer_chain, chain,
                   certificate, ocsp_response, tls_extension_18_tdf, exc, fault,
                   hs, hshake, cb>>

\* --------------------------------------------------------- specification
Next ==
    \/ \E status \in {0, 1} : create_context(status)
    \/ create_socket
    \/ request_ocsp
    \/ connect
    \/ handshake_begin
    \/ \E cert \in Certs, errnum \in VerifyErrs, depth \in VerifyDepth,
          ok \in {0, 1} : hook_verify(cert, errnum, depth, ok)
    \/ \E in \in HsPayloads : hook_extension(SCT_EXT_TYPE, in)
    \/ \E ocsp_data \in OcspDatas : hook_ocsp(ocsp_data)
    \/ handshake_end
    \/ get_peer_cert_chain
    \/ get_peer_certificate
    \/ read_context
    \/ except_handler
    \/ finally_close
    \/ cert_of_domain

Spec == Init /\ [][Next]_vars

\* ======================================================= claims under Spec
\* what do_handshake returned, once it has returned
Returned == hs.outcome = "return"
ResultChain == hs.result[1][2]
ResultOcsp  == hs.result[1][3]
TryFaults == ConnectFaults \cup HandshakeFaults \cup PeerCertFaults

\* C1: whenever do_handshake has returned or raised with the TCP socket
\* created, the socket has been closed exactly once -- on every exit path,
\* the failure of the OCSP stapling request included.
C1_ClosedOnceOnEveryExit ==
    (hs.outcome # "none" /\ sock.created) => sock.closes = 1

\* C2: a fault of connect, of the handshake or of reading the peer
\* certificate or chain reaches the caller as the very same fault, no result
\* is returned, and connect and the handshake are attempted at most once.
C2_FaultPropagatesUnchanged ==
    /\ sock.connects <= 1
    /\ sock.handshakes <= 1
    /\ fault \in TryFaults => hs.outcome # "return"
    /\ (fault \in TryFaults /\ pc = "done") =>
          /\ hs = [outcome |-> "raise", exc |-> fault, result |-> None]
          /\ cod = [outcome |-> "raise", exc |-> fault, result |-> None]

C2_Witness ==
    /\ pc = "done"
    /\ fault \in PeerCertFaults
    /\ hs.exc = fault
    /\ sock.connects = 1 /\ sock.handshakes = 1

\* C4: after a successful handshake whose chain is absent or has 0 or 1
\* entries, cert_of_domain raises at the extraction and returns no
\* artifacts; it never returns with an absent or empty issuer.
MissingIssuerFaults == {"IndexError", "TypeError", "AttributeError"}
ShortChain(c) == c = None \/ Len(c[1]) < 2

C4_ShortChainFails ==
    /\ (pc = "done" /\ Returned /\ ShortChain(ResultChain)) =>
          /\ cod.outcome = "raise"
          /\ cod.exc \in MissingIssuerFaults
          /\ cod.result = None
    /\ cod.outcome = "return" => cod.result[1][2] # <<>>

C4_Witness ==
    /\ pc = "done"
    /\ Returned
    /\ ResultChain # None
    /\ Len(ResultChain[1]) = 1
    /\ cod.exc = "IndexError"

C6_FirstOcspResponseKept ==
    (Returned /\ scts_ocsp) =>
        IF hshake.delivered = <<>>
        THEN ResultOcsp = None
        ELSE /\ ResultOcsp = Some(hshake.delivered[1])
             /\ \A i \in 2..Len(hshake.delivered) :
                   hshake.delivered[i] # hshake.delivered[1]
                      => ResultOcsp # Some(hshake.delivered[i])

C6_Witness ==
    /\ Returned
    /\ scts_ocsp
    /\ Len(hshake.delivered) >= 2
    /\ hshake.delivered[1] # hshake.delivered[2]
    /\ ResultOcsp = Some(hshake.delivered[1])

\* C7: when scts_tls is set and the registration of the extension-18 hook
\* fails, no context is returned: construction ends with SystemExit, and no
\* socket is created and no stapling request, connect or handshake is made.
RegistrationFailed == scts_tls /\ cb.hook = "register" /\ cb.ret = 0

C7_RegistrationFailureIsFatal ==
    RegistrationFailed =>
        /\ ~ctx.built
        /\ sock = NoSock
        /\ pc = "done"
        /\ hs = [outcome |-> "raise", exc |-> "SystemExit", result |-> None]
        /\ cod = [outcome |-> "raise", exc |-> "SystemExit", result |-> None]

C7_Witness == RegistrationFailed /\ pc = "done"

\* C9: the verification callback reports success for every certificate,
\* error number, depth and verdict of the library, so a handshake is never
\* refused because of the peer's chain.
C9_VerifyAlwaysAccepts ==
    /\ cb.hook = "verify" => cb.ret = 1
    /\ hshake.bad_verdict => ~hshake.abort

C9_Witness ==
    /\ Returned
    /\ cb.hook = "verify"
    /\ cb.args[4] = 0
    /\ cb.args[2] # 0
    /\ hshake.bad_verdict

\* C12: with scts_ocsp set, the stapling request has been made on the
\* session before connect is called and before the TLS handshake starts.
C12_RequestBeforeHandshake ==
    (scts_ocsp /\ (sock.connects > 0 \/ sock.handshakes > 0
                      \/ pc \in {"connect", "do_handshake", "in_handshake"}))
        => sock.status_requests >= 1

C12_Witness ==
    /\ scts_ocsp
    /\ pc = "in_handshake"
    /\ sock.handshakes = 1
    /\ sock.status_requests = 1

\* C13 as claimed: with scts_ocsp false no stapling request is made.
C13_NoRequestWithoutFlag ==
    ~scts_ocsp => sock.status_requests = 0

\* C13 as amended: the stapling request is made whether or not scts_ocsp is
\* set -- exactly one has been made whenever connect is reached; scts_ocsp
\* decides only whether the OCSP hook is installed, so without it no
\* response is collected.
C13_RequestWhateverTheFlag ==
    /\ (sock.connects > 0 \/ pc = "connect") => sock.status_requests = 1
    /\ ~scts_ocsp =>
          /\ ~ctx.ocsp_cb
          /\ ctx.ocsp_resps = <<>>
          /\ ocsp_response = None

C13_Witness ==
    /\ ~scts_ocsp
    /\ Returned
    /\ sock.status_requests = 1
    /\ ResultOcsp = None

\* C14: each hook is installed exactly when its flag is set; a result
\* obtained with scts_tls false has no extension-18 record and one obtained
\* with scts_ocsp false has no ocsp_response, each flag on its own.
C14_FlagsSelectHooks ==
    /\ ctx.built => (ctx.ext_cb = scts_tls /\ ctx.ocsp_cb = scts_ocsp)
    /\ (Returned /\ ~scts_tls) => hs.result[1][4] = None
    /\ (Returned /\ ~scts_ocsp) => hs.result[1][3] = None

C14_Witness ==
    /\ Returned
    /\ scts_tls /\ ~scts_ocsp
    /\ hs.result[1][4] # None
    /\ hs.result[1][3] = None

\* the wire record of an extension 18 with payload p
WireRecord(p) == <<0, 18, Len(p) \div 256, Len(p) % 256>> \o p
AfterHandshake == {"finally", "cert_of_domain", "done"}

\* C17 as claimed: once the hook has stored a record, no later hook
\* invocation of the same handshake changes the slot, and do_handshake reads
\* the slot only after the handshake has completed.
C17_SlotImmutableOnceFilled ==
    [][/\ (pc = "in_handshake" /\ ctx.tls_extension_18_tdf # None)
            => ctx'.tls_extension_18_tdf = ctx.tls_extension_18_tdf
       /\ tls_extension_18_tdf' # tls_extension_18_tdf
            => (pc = "read_context" /\ sock.handshakes = 1)]_vars

\* C17 as amended: every invocation of the hook for type 18 writes the
\* slot, replacing the record an earlier one stored, so the slot holds the
\* record of the latest type-18 invocation of the handshake (and is empty
\* before the first); do_handshake has read it only after the handshake
\* completed, and then returns that latest record.
C17_SlotHoldsLatestRecord ==
    /\ ctx.tls_extension_18_tdf =
          IF hshake.last18 = None THEN None
          ELSE Some(WireRecord(hshake.last18[1]))
    /\ (hshake.n18 = 0) = (hshake.last18 = None)
    /\ tls_extension_18_tdf # None =>
          /\ pc \in AfterHandshake
          /\ sock.handshakes = 1
          /\ tls_extension_18_tdf = ctx.tls_extension_18_tdf

C17_Witness ==
    /\ Returned
    /\ hshake.n18 = 2
    /\ hs.result[1][4] = Some(WireRecord(hshake.last18[1]))

\* ================================================== the extension hook alone
\* The hook of a built context (lines 45-61) applied to every extension
\* type and payload of the sets below, again and again on the same slot.
HookExtTypes == {0, SCT_EXT_TYPE, 65535}
HookBytes    == {0, 255}
LongLens     == {256, 65535}    \* lengths that need the high length byte
HookPayloads == SeqUpTo(HookBytes, MaxLen)
                   \cup {[i \in 1..n |-> 170] : n \in LongLens}

InitHook ==
    /\ pc = "create_context"
    /\ scts_tls = TRUE
    /\ scts_ocsp = FALSE
    /\ InitLocals
    /\ InitNoDecode
    /\ InitNoTwo

\* one invocation of serverinfo_cli_parse_cb (lines 45-61) by the library,
\* on the context create_context has built with the hook registered
hook_call(ext_type, in) ==
    /\ ctx.built
    /\ ctx.ext_cb
    /\ LET inlen == Len(in)
           r == serverinfo_cli_parse_cb(ctx.tls_extension_18_tdf, ext_type,
                                        SubSeq(in, 1, inlen), inlen) IN
       /\ ctx' = [ctx EXCEPT !.tls_extension_18_tdf = r.slot]
       /\ cb' = [hook |-> "extension", args |-> <<ext_type, in, inlen>>,
                 ret |-> r.ret]
    /\ UNCHANGED <<twovars, decvars, pc, scts_tls, scts_ocsp, sock, peer_chain, chain,
                   certificate, ocsp_response, tls_extension_18_tdf, exc, fault,
                   hs, cod, hshake>>

NextHook ==
    \/ create_context(1)
    \/ \E ext_type \in HookExtTypes, in \in HookPayloads : hook_call(ext_type, in)

SpecHook == InitHook /\ [][NextHook]_vars

\* the last hook invocation and the slot it left
HookCalled == cb.hook = "extension"
HookType   == cb.args[1]
HookIn     == cb.args[2]
HookLen    == cb.args[3]
Slot       == ctx.tls_extension_18_tdf

\* C3: for an extension-18 payload of length L the stored record has 4+L
\* bytes: big-endian 18, big-endian L, the payload unchanged; it decodes
\* back to (18, L, payload), the length field counting the payload bytes.
C3_RecordRoundTrip ==
    (HookCalled /\ HookType = SCT_EXT_TYPE /\ HookLen <= 65535) =>
        /\ Slot # None
        /\ Len(Slot[1]) = 4 + HookLen
        /\ SubSeq(Slot[1], 1, 2) = <<0, 18>>
        /\ SubSeq(Slot[1], 3, 4) = <<HookLen \div 256, HookLen % 256>>
        /\ SubSeq(Slot[1], 5, 4 + HookLen) = HookIn
        /\ DecodeTdf(Slot[1]) =
              [ext_type |-> 18, length |-> HookLen, payload |-> HookIn]
        /\ DecodeTdf(Slot[1]).length = Len(DecodeTdf(Slot[1]).payload)

C3_Witness ==
    /\ HookCalled
    /\ HookType = SCT_EXT_TYPE
    /\ HookLen = 65535
    /\ Len(Slot[1]) = 65539
    /\ SubSeq(Slot[1], 1, 4) = <<0, 18, 255, 255>>

\* C8: the extension hook returns success on every invocation, whatever the
\* extension type and length and whether or not the slot is filled.
C8_HookAlwaysAccepts ==
    (HookCalled /\ HookLen <= 65535) => cb.ret = 1

C8_Witness ==
    /\ HookCalled
    /\ HookType # SCT_EXT_TYPE
    /\ Slot # None
    /\ cb.ret = 1

\* ------------------------------------------- the hook with any declared length
\* One invocation of serverinfo_cli_parse_cb (lines 45-61) in which the
\* declared length inlen need not be the number of bytes delivered at _in.
\* ffi.buffer(_in, inlen) (line 58) reads inlen bytes from the address: the
\* bytes delivered, then whatever lies beyond them in memory.
hook_call_raw(ext_type, in, inlen, beyond) ==
    /\ ctx.built
    /\ ctx.ext_cb
    /\ Len(in) + Len(beyond) >= inlen
    /\ LET r == serverinfo_cli_parse_cb(ctx.tls_extension_18_tdf, ext_type,
                                        SubSeq(in \o beyond, 1, inlen), inlen) IN
       /\ ctx' = [ctx EXCEPT !.tls_extension_18_tdf = r.slot]
       /\ cb' = [hook |-> "extension", args |-> <<ext_type, in, inlen>>,
                 ret |-> r.ret]
    /\ UNCHANGED <<twovars, decvars, pc, scts_tls, scts_ocsp, sock, peer_chain,
                   chain, certificate, ocsp_response, tls_extension_18_tdf, exc,
                   fault, hs, cod, hshake>>

RawPayloads == SeqUpTo(HookBytes, MaxLen)

NextHookRaw ==
    \/ create_context(1)
    \/ \E ext_type \in HookExtTypes, in \in RawPayloads, inlen \in 0..(MaxLen + 1) :
          \E beyond \in SeqUpTo(HookBytes, MaxLen + 1) :
             /\ Len(beyond) = IF inlen > Len(in) THEN inlen - Len(in) ELSE 0
             /\ hook_call_raw(ext_type, in, inlen, beyond)

SpecHookRaw == InitHook /\ [][NextHookRaw]_vars

RECURSIVE Decimal(_)
Decimal(n) == IF n < 10 THEN <<48 + n>> ELSE Decimal(n \div 10) \o <<48 + (n % 10)>>

\* str(extension['extnID']): the arcs in decimal, joined by '.' (line 169)
RECURSIVE OidStr(_)
OidStr(oid) ==
    IF Len(oid) = 0 THEN <<>>
    ELSE IF Len(oid) = 1 THEN Decimal(oid[1])
    ELSE Decimal(oid[1]) \o <<46>> \o OidStr(Tail(oid))

\* the literal '1.3.6.1.4.1.11129.2.4.2' of line 169
CT_OID_STR == <<49, 46, 51, 46, 54, 46, 49, 46, 52, 46, 49, 46,
                49, 49, 49, 50, 57, 46, 50, 46, 52, 46, 50>>

\* '%.2x' % x for each byte, as OctetString.prettyPrint writes them
HexDigit(n) == IF n < 10 THEN 48 + n ELSE 97 + (n - 10)
RECURSIVE Hexlify(_)
Hexlify(b) ==
    IF b = <<>> THEN <<>>
    ELSE <<HexDigit(b[1] \div 16), HexDigit(b[1] % 16)>> \o Hexlify(Tail(b))

\* OctetString.prettyPrint(), line 177: the text itself when every byte is
\* printable (32..126), else '0x' and the hex digits
PrettyPrint(b) ==
    IF \A i \in 1..Len(b) : b[i] >= 32 /\ b[i] <= 126
    THEN b
    ELSE <<48, 120>> \o Hexlify(b)

\* str.split('0x')[-1], line 177: what follows the last '0x', or all of it
SplitLast0x(t) ==
    LET at == {i \in 1..(Len(t) - 1) : t[i] = 48 /\ t[i + 1] = 120} IN
    IF at = {} THEN t
    ELSE LET last == CHOOSE i \in at : \A j \in at : j <= i IN
         SubSeq(t, last + 2, Len(t))

\* binascii.unhexlify, line 178: None stands for binascii.Error (odd length
\* or a character that is no hex digit)
HexValue(c) ==
    IF c >= 48 /\ c <= 57 THEN c - 48
    ELSE IF c >= 97 /\ c <= 102 THEN c - 87
    ELSE IF c >= 65 /\ c <= 70 THEN c - 55
    ELSE -1
Unhexlify(t) ==
    IF Len(t) % 2 = 1 \/ \E i \in 1..Len(t) : HexValue(t[i]) < 0
    THEN None
    ELSE Some([i \in 1..(Len(t) \div 2) |->
                  HexValue(t[2 * i - 1]) * 16 + HexValue(t[2 * i])])

\* ---------------------------------------------------------------- the DER
\* the DER encoding of an OCTET STRING with content b (tag 4, definite length)
DerOctetString(b) ==
    IF Len(b) < 128 THEN <<4, Len(b)>> \o b
    ELSE IF Len(b) < 256 THEN <<4, 129, Len(b)>> \o b
    ELSE <<4, 130, Len(b) \div 256, Len(b) % 256>> \o b

\* der_decoder(os_inner_der, OctetString()), line 175: the content of the
\* leading OCTET STRING, bytes after it ignored; None stands for PyAsn1Error
DecodeOctetString(d) ==
    IF Len(d) < 2 \/ d[1] # 4 THEN None
    ELSE LET form == d[2]
             hdr  == IF form < 128 THEN 2
                     ELSE IF form = 129 THEN 3
                     ELSE IF form = 130 THEN 4 ELSE 0
             n    == IF hdr = 2 THEN form
                     ELSE IF hdr = 3 /\ Len(d) >= 3 THEN d[3]
                     ELSE IF hdr = 4 /\ Len(d) >= 4 THEN d[3] * 256 + d[4]
                     ELSE -1 IN
         IF hdr = 0 \/ n < 0 \/ Len(d) < hdr + n THEN None
         ELSE Some(SubSeq(d, hdr + 1, hdr + n))

\* ----------------------------------------------------- the SCT list codec
\* SignedCertificateTimestampList(sctlist_der).sct_list, line 179-180: a
\* 2-byte big-endian total length, then entries, each a 2-byte big-endian
\* length and that many bytes.  None stands for the parse fault.
RECURSIVE SctEntries(_)
SctEntries(body) ==
    IF body = <<>> THEN Some(<<>>)
    ELSE IF Len(body) < 2 THEN None
    ELSE LET n == UnpackH(body, 1) IN
         IF Len(body) < 2 + n THEN None
         ELSE LET rest == SctEntries(SubSeq(body, 3 + n, Len(body))) IN
              IF rest = None THEN None
              ELSE Some(<<SubSeq(body, 3, 2 + n)>> \o rest[1])

SignedCertificateTimestampList(sctlist_der) ==
    IF Len(sctlist_der) < 2 THEN None
    ELSE LET total == UnpackH(sctlist_der, 1) IN
         IF Len(sctlist_der) # 2 + total THEN None
         ELSE SctEntries(SubSeq(sctlist_der, 3, 2 + total))

\* Sct(entry.sct_der), line 180: the record of one encoded SCT
Sct(sct_der) == [der |-> sct_der]

\* the wire form of a list of SCT blobs, as a log-aware CA embeds it
RECURSIVE EncodeEntries(_)
EncodeEntries(blobs) ==
    IF blobs = <<>> THEN <<>>
    ELSE PackH(Len(blobs[1])) \o blobs[1] \o EncodeEntries(Tail(blobs))
EncodeSctList(blobs) ==
    PackH(Len(EncodeEntries(blobs))) \o EncodeEntries(blobs)

\* ---------------------------------------------------------- the function
Fails(e)   == [outcome |-> "raise", exc |-> e, result |-> None]
Returns(v) == [outcome |-> "return", exc |-> "", result |-> Some(v)]

\* lines 162-178 of scts_from_cert: the argument of the call
\* SignedCertificateTimestampList(sctlist_der) at line 179, None when the
\* function returns or raises before it
codec_input(der) ==
    IF ~der.wellformed THEN None
    ELSE
    LET IsCt(extension) == OidStr(extension.extnID) = CT_OID_STR
        exts == SelectSeq(der.extensions, IsCt) IN
    IF Len(exts) = 0 THEN None
    ELSE LET os_inner == DecodeOctetString(exts[1].extnValue) IN
         IF os_inner = None THEN None
         ELSE Unhexlify(SplitLast0x(PrettyPrint(os_inner[1])))

\* a decoder that takes the first extension whatever its identifier
scts_from_cert_unfiltered(der) ==
    IF ~der.wellformed THEN Fails("PyAsn1Error")
    ELSE IF Len(der.extensions) = 0 THEN Returns(<<>>)
    ELSE LET os_inner == DecodeOctetString(der.extensions[1].extnValue) IN
         IF os_inner = None THEN Fails("PyAsn1Error")
         ELSE LET sctlist_der == Unhexlify(SplitLast0x(PrettyPrint(os_inner[1]))) IN
              IF sctlist_der = None THEN Fails("binascii.Error")
              ELSE LET sctlist == SignedCertificateTimestampList(sctlist_der[1]) IN
                   IF sctlist = None THEN Fails("SctListError")
                   ELSE Returns([i \in 1..Len(sctlist[1]) |-> Sct(sctlist[1][i])])

\* a decoder that takes the last matching extension instead of the first
scts_from_cert_last_match(der) ==
    IF ~der.wellformed THEN Fails("PyAsn1Error")
    ELSE
    LET IsCt(extension) == OidStr(extension.extnID) = CT_OID_STR
        exts == SelectSeq(der.extensions, IsCt) IN
    IF Len(exts) = 0 THEN Returns(<<>>)
    ELSE LET os_inner == DecodeOctetString(exts[Len(exts)].extnValue) IN
         IF os_inner = None THEN Fails("PyAsn1Error")
         ELSE LET sctlist_der == Unhexlify(SplitLast0x(PrettyPrint(os_inner[1]))) IN
              IF sctlist_der = None THEN Fails("binascii.Error")
              ELSE LET sctlist == SignedCertificateTimestampList(sctlist_der[1]) IN
                   IF sctlist = None THEN Fails("SctListError")
                   ELSE Returns([i \in 1..Len(sctlist[1]) |-> Sct(sctlist[1][i])])

\* scts_from_cert(cert_der), lines 161-182.  der is the certificate as
\* der_decoder reads it at line 162: whether it parses, and its extensions.
scts_from_cert(der) ==
    IF ~der.wellformed THEN Fails("PyAsn1Error")                  \* line 162
    ELSE
    LET IsCt(extension) == OidStr(extension.extnID) = CT_OID_STR  \* line 169
        exts == SelectSeq(der.extensions, IsCt) IN                \* 166-169
    IF Len(exts) = 0 THEN Returns(<<>>)                           \* 164, 171
    ELSE LET os_inner == DecodeOctetString(exts[1].extnValue) IN  \* 172-175
         IF os_inner = None THEN Fails("PyAsn1Error")
         ELSE LET sctlist_hex == SplitLast0x(PrettyPrint(os_inner[1]))   \* 177
                  sctlist_der == Unhexlify(sctlist_hex) IN               \* 178
              IF sctlist_der = None THEN Fails("binascii.Error")
              ELSE LET sctlist == SignedCertificateTimestampList(sctlist_der[1]) IN
                   IF sctlist = None THEN Fails("SctListError")          \* 179
                   ELSE Returns([i \in 1..Len(sctlist[1]) |->
                                    Sct(sctlist[1][i])])                 \* 180

\* ------------------------------------------------------------ the inputs
CT_OID    == <<1, 3, 6, 1, 4, 1, 11129, 2, 4, 2>>   \* embedded SCT list
OtherOids == {<<1, 3, 6, 1, 4, 1, 11129, 2, 4, 3>>, \* CT precertificate poison
              <<1, 3, 6, 1, 4, 1, 11129, 2, 4, 21>>,
              <<2, 5, 29, 15>>}                     \* keyUsage
SctBlobs  == {<<0, 7>>, <<65>>}

\* contents of the inner OCTET STRING: SCT lists, and byte strings that are
\* printable text
InnerContents ==
    {EncodeSctList(l) : l \in SeqUpTo(SctBlobs, MaxScts)}
       \cup {<<>>, <<52, 49>>, <<65>>, <<48, 120, 48, 48>>}

\* extension values: well-formed OCTET STRINGs and two that are none
ExtnValues ==
    {DerOctetString(c) : c \in InnerContents} \cup {<<5, 0>>, <<4, 3, 0>>}

Extensions ==
    {[extnID |-> CT_OID, extnValue |-> v] : v \in ExtnValues}
       \cup {[extnID |-> o, extnValue |-> DerOctetString(EncodeSctList(<<<<0>>>>))] :
                o \in OtherOids}
       \cup {[extnID |-> <<2, 5, 29, 15>>, extnValue |-> <<3, 2, 5, 160>>]}

DecodeInputs ==
    {[wellformed |-> FALSE, extensions |-> <<>>]}
       \cup {[wellformed |-> TRUE, extensions |-> e] :
                e \in SeqUpTo(Extensions, MaxExts)}

InitDecode ==
    /\ pc = "scts_from_cert"
    /\ scts_tls = FALSE
    /\ scts_ocsp = FALSE
    /\ InitLocals
    /\ InitNoTwo
    /\ cert_der \in DecodeInputs
    /\ scts = NoEnd
    /\ codec_in = None

\* the call scts_from_cert(cert_der)
decode ==
    /\ pc = "scts_from_cert"
    /\ scts' = scts_from_cert(cert_der)
    /\ codec_in' = codec_input(cert_der)
    /\ pc' = "decoded"
    /\ UNCHANGED <<twovars, cert_der, scts_tls, scts_ocsp, ctx, sock, peer_chain, chain,
                   certificate, ocsp_response, tls_extension_18_tdf, exc, fault,
                   hs, cod, hshake, cb>>

NextDecode == decode

SpecDecode == InitDecode /\ [][NextDecode]_vars

\* C10: for a well-formed certificate none of whose extensions has the
\* identifier 1.3.6.1.4.1.11129.2.4.2, scts_from_cert returns the empty
\* sequence and raises nothing.
HasCtExtension(der) ==
    \E i \in 1..Len(der.extensions) : der.extensions[i].extnID = CT_OID

C10_NoCtExtensionGivesEmpty ==
    (pc = "decoded" /\ cert_der.wellformed /\ ~HasCtExtension(cert_der)) =>
        scts = [outcome |-> "return", exc |-> "", result |-> Some(<<>>)]

C10_Witness ==
    /\ pc = "decoded"
    /\ cert_der.wellformed
    /\ Len(cert_der.extensions) = 2
    /\ ~HasCtExtension(cert_der)
    /\ scts.outcome = "return"
    /\ scts.result = Some(<<>>)

\* the value of the first extension of der, in list order, that has the CT
\* identifier
FirstCtValue(der) ==
    LET first == CHOOSE i \in 1..Len(der.extensions) :
                    /\ der.extensions[i].extnID = CT_OID
                    /\ \A j \in 1..(i - 1) : der.extensions[j].extnID # CT_OID IN
    der.extensions[first].extnValue
CtValues(der) ==
    SelectSeq(der.extensions, LAMBDA e : e.extnID = CT_OID)
BlobLists == SeqUpTo(SctBlobs, MaxScts)
Decoded == pc = "decoded" /\ cert_der.wellformed /\ HasCtExtension(cert_der)

\* C11: of a certificate with one or more CT extensions only the first in
\* list order is decoded: when it wraps a list of N SCT blobs the result has
\* exactly N records, the i-th built from the i-th blob, and no blob of a
\* later CT extension is in it.
C11_FirstCtExtensionInOrder ==
    Decoded =>
        \A l \in BlobLists :
            FirstCtValue(cert_der) = DerOctetString(EncodeSctList(l)) =>
                /\ scts.outcome = "return"
                /\ Len(scts.result[1]) = Len(l)
                /\ \A i \in 1..Len(l) : scts.result[1][i] = Sct(l[i])

C11_Witness ==
    /\ Decoded
    /\ Len(CtValues(cert_der)) = 2
    /\ \E l \in BlobLists :
          /\ Len(l) = 2
          /\ l[1] # l[2]
          /\ FirstCtValue(cert_der) = DerOctetString(EncodeSctList(l))
          /\ CtValues(cert_der)[2].extnValue = DerOctetString(EncodeSctList(<<l[2]>>))
          /\ scts.result = Some(<<Sct(l[1]), Sct(l[2])>>)

\* C19: when the value of the CT extension is an encoded octet string with
\* content bytes B, whatever B is, the bytes handed to the SCT list codec
\* are exactly B; a value that does not unwrap raises the decode fault.
C19_CodecGetsContentBytes ==
    Decoded =>
        /\ \A b \in InnerContents :
              FirstCtValue(cert_der) = DerOctetString(b) => codec_in = Some(b)
        /\ DecodeOctetString(FirstCtValue(cert_der)) = None =>
              /\ scts = Fails("PyAsn1Error")
              /\ codec_in = None

\* ============================================== two invocations of do_handshake
\* Two invocations of do_handshake(domain, scts_tls, scts_ocsp) in one
\* process, each stepped through lines 108-138 on its own thread of control.
\* inv[i] holds the locals of invocation i and the context it built; lib_cb
\* is the invocation whose closure the extern symbol
\* lib.serverinfo_cli_parse_cb currently runs (0: none attached yet).  The
\* peer's certificates play no part here and are left out.
solovars == <<pc, scts_tls, scts_ocsp, ctx, sock, peer_chain, chain, certificate,
              ocsp_response, tls_extension_18_tdf, exc, fault, hs, cod, hshake, cb>>

Active(i) == inv[i].pc \notin {"start", "done"}
Other(i)  == CHOOSE j \in Invocations : j # i

\* what the library delivers to invocation i: bytes that name the handshake
TwoPayloads(i) == {<<i>>, <<i, 0>>}
TwoOcspDatas(i) == {<<48, i>>}

InitTwo ==
    /\ pc = "two"
    /\ scts_tls = FALSE
    /\ scts_ocsp = FALSE
    /\ InitLocals
    /\ InitNoDecode
    /\ InitNoTwo

\* a context builder that starts from the slots of the context built before
t_create_context_stale(i, tls, ocsp, status) ==
    /\ inv[i].pc = "start"
    /\ inv' = [inv EXCEPT
                 ![i].scts_tls = tls,
                 ![i].scts_ocsp = ocsp,
                 ![i].ctx = [built |-> TRUE,
                             tls_extension_18_tdf |->
                                 inv[Other(i)].ctx.tls_extension_18_tdf,
                             ocsp_resps |-> inv[Other(i)].ctx.ocsp_resps,
                             verify_cb |-> TRUE,
                             ext_cb |-> tls,
                             ocsp_cb |-> ocsp],
                 ![i].pc = IF tls /\ status = 0 THEN "done" ELSE "connect",
                 ![i].outcome = IF tls /\ status = 0 THEN "raise" ELSE "none",
                 ![i].exc = IF tls /\ status = 0 THEN "SystemExit" ELSE ""]
    /\ lib_cb' = IF tls THEN i ELSE lib_cb
    /\ overlapped' = (overlapped \/ Active(Other(i)))
    /\ UNCHANGED <<solovars, decvars>>

\* line 108, create_socket -> create_context (lines 19-85) in invocation i: a
\* new context with both slots empty (lines 30, 38, 76); with scts_tls,
\* def_extern attaches this invocation's closure to the one extern symbol
\* (lines 45-46) before the registration of line 65 is attempted, and a
\* failed registration ends the invocation with SystemExit (line 74).
t_create_context(i, tls, ocsp, status) ==
    /\ inv[i].pc = "start"
    /\ inv' = [inv EXCEPT
                 ![i].scts_tls = tls,
                 ![i].scts_ocsp = ocsp,
                 ![i].ctx = [built |-> TRUE,
                             tls_extension_18_tdf |-> None,
                             ocsp_resps |-> <<>>,
                             verify_cb |-> TRUE,
                             ext_cb |-> tls,
                             ocsp_cb |-> ocsp],
                 ![i].pc = IF tls /\ status = 0 THEN "done" ELSE "connect",
                 ![i].outcome = IF tls /\ status = 0 THEN "raise" ELSE "none",
                 ![i].exc = IF tls /\ status = 0 THEN "SystemExit" ELSE ""]
    /\ lib_cb' = IF tls THEN i ELSE lib_cb
    /\ overlapped' = (overlapped \/ Active(Other(i)))
    /\ UNCHANGED <<solovars, decvars>>

\* lines 110-116: request_ocsp, the two locals set to None, connect; any of
\* the calls may raise, which ends the invocation
t_connect(i) ==
    /\ inv[i].pc = "connect"
    /\ \/ inv' = [inv EXCEPT ![i].pc = "in_handshake",
                             ![i].ocsp_response = None,
                             ![i].tls_extension_18_tdf = None]
       \/ \E e \in RequestOcspFaults \cup ConnectFaults :
             inv' = [inv EXCEPT ![i].pc = "done",
                                ![i].outcome = "raise",
                                ![i].exc = reraise(e)]
    /\ UNCHANGED <<lib_cb, overlapped, solovars, decvars>>

\* During line 117 of invocation i the library meets extension 18 and calls
\* the C function registered at line 65.  That function is the extern symbol,
\* which runs the closure attached last (lines 45-46): the record goes to the
\* context that closure was made over, the context of invocation lib_cb.
t_hook_extension(i, ext_type, in) ==
    /\ inv[i].pc = "in_handshake"
    /\ inv[i].ctx.ext_cb
    /\ inv[i].calls < MaxCalls
    /\ lib_cb \in Invocations
    /\ LET inlen == Len(in)
           r == serverinfo_cli_parse_cb(inv[lib_cb].ctx.tls_extension_18_tdf,
                                        ext_type, SubSeq(in, 1, inlen), inlen)
           seen == [inv EXCEPT ![i].calls = @ + 1,
                               ![i].last18 = IF ext_type = SCT_EXT_TYPE
                                             THEN Some(in) ELSE @] IN
       inv' = [seen EXCEPT ![lib_cb].ctx.tls_extension_18_tdf = r.slot]
    /\ UNCHANGED <<lib_cb, overlapped, solovars, decvars>>

\* During line 117 of invocation i the library calls the OCSP callback that
\* line 83 set on this invocation's own context.
t_hook_ocsp(i, ocsp_data) ==
    /\ inv[i].pc = "in_handshake"
    /\ inv[i].ctx.ocsp_cb
    /\ inv[i].calls < MaxCalls
    /\ LET r == ocsp_client_callback(inv[i].ctx.ocsp_resps, ocsp_data) IN
       inv' = [inv EXCEPT ![i].calls = @ + 1,
                          ![i].delivered = Append(@, ocsp_data),
                          ![i].ctx.ocsp_resps = r.resps]
    /\ UNCHANGED <<lib_cb, overlapped, solovars, decvars>>

\* lines 117-119: the handshake and the two reads of the peer's certificates
\* return, or one of them raises
t_handshake_end(i) ==
    /\ inv[i].pc = "in_handshake"
    /\ \/ inv' = [inv EXCEPT ![i].pc = "read_context"]
       \/ \E e \in HandshakeFaults \cup PeerCertFaults :
             inv' = [inv EXCEPT ![i].pc = "done",
                                ![i].outcome = "raise",
                                ![i].exc = reraise(e)]
    /\ UNCHANGED <<lib_cb, overlapped, solovars, decvars>>

\* lines 121-138: the slots of the invocation's own context are read, each
\* under its flag, the socket is closed and the tuple returned
t_read_context(i) ==
    /\ inv[i].pc = "read_context"
    /\ LET c == inv[i].ctx IN
       inv' = [inv EXCEPT
                 ![i].tls_extension_18_tdf =
                     IF inv[i].scts_tls /\ c.tls_extension_18_tdf # None
                                        /\ c.tls_extension_18_tdf[1] # <<>>
                     THEN c.tls_extension_18_tdf ELSE @,
                 ![i].ocsp_response =
                     IF inv[i].scts_ocsp /\ c.ocsp_resps # <<>>
                     THEN Some(c.ocsp_resps[1]) ELSE @,
                 ![i].outcome = "return",
                 ![i].pc = "done"]
    /\ UNCHANGED <<lib_cb, overlapped, solovars, decvars>>

NextTwo ==
    \/ \E i \in Invocations, tls \in BOOLEAN, ocsp \in BOOLEAN, status \in {0, 1} :
          t_create_context(i, tls, ocsp, status)
    \/ \E i \in Invocations : t_connect(i)
    \/ \E i \in Invocations : \E in \in TwoPayloads(i) :
          t_hook_extension(i, SCT_EXT_TYPE, in)
    \/ \E i \in Invocations : \E ocsp_data \in TwoOcspDatas(i) :
          t_hook_ocsp(i, ocsp_data)
    \/ \E i \in Invocations : t_handshake_end(i)
    \/ \E i \in Invocations : t_read_context(i)

SpecTwo == InitTwo /\ [][NextTwo]_vars

\* what invocation i must return from what its own handshake delivered
OwnRecord(i) ==
    IF inv[i].scts_tls /\ inv[i].last18 # None
    THEN Some(WireRecord(inv[i].last18[1])) ELSE None
OwnOcsp(i) ==
    IF inv[i].scts_ocsp /\ inv[i].delivered # <<>>
    THEN Some(inv[i].delivered[1]) ELSE None
TwoReturned(i) == inv[i].pc = "done" /\ inv[i].outcome = "return"

\* C15: when two invocations with scts_tls set have each built their own
\* context and their handshakes overlap, the extension-18 record in an
\* invocation's result is the record delivered during its own handshake (none
\* if none was delivered), never one delivered during the other's.
C15_OverlapKeepsRecordsApart ==
    (overlapped /\ \A j \in Invocations : inv[j].scts_tls /\ inv[j].exc # "SystemExit") =>
        \A i \in Invocations :
            TwoReturned(i) => inv[i].tls_extension_18_tdf = OwnRecord(i)

\* C16: as long as the invocations have not overlapped, an invocation that
\* has built its context and seen no hook call yet has an empty extension-18
\* slot and an empty OCSP buffer, and a returned invocation's result holds
\* exactly the record and the first OCSP response delivered during its own
\* handshake, nothing a previous invocation captured.
C16_SequentialInvocationsIsolated ==
    ~overlapped =>
        \A i \in Invocations :
            /\ (Active(i) /\ inv[i].calls = 0) =>
                  /\ inv[i].ctx.tls_extension_18_tdf = None
                  /\ inv[i].ctx.ocsp_resps = <<>>
            /\ TwoReturned(i) =>
                  /\ inv[i].tls_extension_18_tdf = OwnRecord(i)
                  /\ inv[i].ocsp_response = OwnOcsp(i)

\* two invocations ran one after the other, each captured a record and an
\* OCSP response, and the second started after the first had captured
C16_Witness ==
    /\ ~overlapped
    /\ \A i \in Invocations :
          /\ TwoReturned(i)
          /\ inv[i].tls_extension_18_tdf # None
          /\ inv[i].ocsp_response # None
    /\ inv[1].tls_extension_18_tdf # inv[2].tls_extension_18_tdf
    /\ inv[1].ocsp_response # inv[2].ocsp_response

=============================================================================
